---- MODULE Spec2Model ----
(***************************************************************************)
(* A model of the inference-serving engine of project-weather:             *)
(*   - the Temperature Store   (web/predictor.py, save/load/get_lag)       *)
(*   - the Model Freshness Cache (web/predictor.py, load_model)            *)
(*   - the Scheduler           (web/scheduler.py, web/app.py)              *)
(*   - the Forecast Engine     (web/predictor.py, predict_24h)             *)
(*                                                                         *)
(* Conventions.  An Optional[float] is a sequence of length <= 1: <<>> is  *)
(* Python's None and <<v>> is the value v.  A datetime is a record         *)
(* [wall, tz]: wall is the wall-clock reading in minutes since an epoch    *)
(* midnight, tz is the attached tzinfo ("naive" for none).  A calendar     *)
(* date (year, month, day) is the day ordinal wall \div 1440.              *)
(***************************************************************************)
EXTENDS Integers, Sequences, FiniteSets, TLC

VARIABLES
    \* ---- Temperature Store
    file,       \* temperatures.parquet: [exists, rows]
    log,        \* history: the save_temperature calls made so far, in order
    ret,        \* the most recent call of the store API and what it returned
    pc,         \* per caller: position inside save_temperature
    df,         \* per caller: the DataFrame save_temperature has loaded
    arg,        \* per caller: the (dt, temperature) of the call in progress
    \* ---- Model Freshness Cache
    artifact,       \* the trained_model file: [exists, mtime, ok]
    catalogUp,      \* whether KedroSession / the catalog can be opened
    model,          \* self._model: None or the loaded handle
    modelTimestamp, \* self._model_timestamp: None or a modification time
    cpc,            \* per caller: position inside load_model
    curMtime,       \* per caller: current_mtime
    loadedObj,      \* per caller: the object catalog.load has just returned
    call,           \* per caller: what the call in progress has done so far
    calls,          \* history: the completed load_model calls, in order
    nloads,         \* successful catalog loads so far (names the handles)
    \* ---- Scheduler
    schedState,     \* scheduler.running: "running" or "stopped"
    phase,          \* the process: "serving" or "exited"
    jpc,            \* per executor slot: position inside update_forecast
    jfailed,        \* per executor slot: whether this execution raised
    rpc,            \* per request handler: position inside a request
    fires,          \* interval fires the scheduler has processed
    firesIdle,      \* those that came in time while no execution was running
    started,        \* executions of forecast_update_job started
    lastExec,       \* the execution that finished last, if any
    shutdownBy,     \* who has called scheduler.shutdown(), in order
    \* ---- Forecast Engine
    fpc,            \* position inside predict_24h: idle, loop, returned, raised
    fargs,          \* the (start_time, current_temp) of the call
    fi,             \* the loop variable i
    lagTemps,       \* lag_temps
    currentTempVal, \* current_temp_val
    predictions,    \* predictions
    inputs,         \* history: what _build_features took and gave at each step
    \* ---- ingestion (forecast_update_job and /api/forecast)
    ipc,            \* position inside an ingestion: idle, fetched, aborted, done
    ikind,          \* who ingests: the scheduler job or the request handler
    iresp,          \* the weather service's answer to this ingestion
    iweather,       \* what get_current_weather returned, if it returned
    fileBefore,     \* history: the file as it was when the ingestion began
    \* ---- process termination during a save
    torn,           \* the file is open for rewriting: truncated, footer not written
    acked,          \* history: the observations whose save_temperature returned
    restarted,      \* the process was terminated and started again
    \* ---- explanation
    shapValues,     \* the contribution vector the explainer produced
    explained       \* what get_shap_contributions made of it

storeVars == <<file, log, ret, pc, df, arg>>

cacheVars == <<artifact, catalogUp, model, modelTimestamp, cpc, curMtime,
               loadedObj, call, calls, nloads>>

schedVars == <<schedState, phase, jpc, jfailed, rpc, fires, firesIdle, started,
               lastExec, shutdownBy>>

forecastVars == <<fpc, fargs, fi, lagTemps, currentTempVal, predictions, inputs>>

ingestVars == <<ipc, ikind, iresp, iweather, fileBefore>>

crashVars == <<torn, acked, restarted>>

explainVars == <<shapValues, explained>>

auxVars == <<ingestVars, crashVars, explainVars>>

vars == <<storeVars, cacheVars, schedVars, forecastVars, auxVars>>

notStore == <<cacheVars, schedVars, forecastVars, auxVars>>

notCache == <<storeVars, schedVars, forecastVars, auxVars>>

notSched == <<storeVars, cacheVars, forecastVars, auxVars>>

\* ------------------------------------------------------------------ bounds
MaxSaves == 3       \* save_temperature calls in one behaviour
NumProcs == 2       \* concurrent callers of save_temperature
NumLags == 3        \* params['data_engineering']['num_lags']
MaxCalls == 3       \* load_model calls in one behaviour
MaxMtime == 3       \* modification times the artifact goes through
MaxFires == 3       \* interval fires in one behaviour
PoolSlots == 2      \* executor threads the model follows

\* ------------------------------------------------------------ input values
NoValue == <<>>
Some(v) == <<v>>

At(day, hour, minute) == (day * 24 + hour) * 60 + minute

DateTime(wall, tz) == [wall |-> wall, tz |-> tz]

\* Datetimes the callers pass: two in one hour (one naive, one aware), hours
\* on both sides of a midnight, and the same hour-of-day on another date.
DateTimes ==
    { DateTime(At(1, 22, 10), "naive"),
      DateTime(At(1, 23, 0), "naive"),
      DateTime(At(1, 23, 45), "UTC"),
      DateTime(At(2, 0, 20), "UTC"),
      DateTime(At(2, 1, 5), "naive"),
      DateTime(At(2, 23, 30), "naive") }

Temperatures == {50, 51}

Procs == 1..NumProcs

\* --------------------------------------------------------- datetime fields
\* dt.replace(tzinfo=None) if dt.tzinfo else dt
Naive(dt) == IF dt.tz # "naive" THEN [dt EXCEPT !.tz = "naive"] ELSE dt

\* (dt.year, dt.month, dt.day) as a day ordinal
DateOf(dt) == dt.wall \div 1440

\* dt.hour
HourOf(dt) == (dt.wall \div 60) % 24

\* dt - timedelta(hours = h): wall-clock arithmetic, tzinfo kept
MinusHours(dt, h) == [dt EXCEPT !.wall = dt.wall - 60 * h]

\* dt + timedelta(hours = h)
PlusHours(dt, h) == [dt EXCEPT !.wall = dt.wall + 60 * h]

\* --------------------------------------------------------- Temperature Store
\* _load_temperatures_df: the file's rows, or an empty frame when it is absent
LoadTemperaturesDf(f) == IF f.exists THEN f.rows ELSE <<>>

\* _save_temperatures_df: the whole file is rewritten with the frame
SaveTemperaturesDf(frame) == [exists |-> TRUE, rows |-> frame]

\* the row mask (year == ..) & (month == ..) & (day == ..) & (hour == ..)
Matches(row, dtn) == row.date = DateOf(dtn) /\ row.hour = HourOf(dtn)

NewRow(dtn, temperature) ==
    [date |-> DateOf(dtn), hour |-> HourOf(dtn),
     temperature |-> temperature, timestamp |-> dtn.wall]

\* the row of an hour already stored is replaced (last write wins)
SaveOverwrite(f, frame, dt, temperature) ==
    LET dtn == Naive(dt)
        keep(row) == ~Matches(row, dtn)
    IN  SaveTemperaturesDf(Append(SelectSeq(frame, keep), NewRow(dtn, temperature)))

\* save_temperature after the load: the file the call leaves behind, given the
\* frame it loaded and the file f as it is when the call writes
SaveTemperatureWrite(f, frame, dt, temperature) ==
    LET dtn == Naive(dt)
        exists == \E i \in 1..Len(frame) : Matches(frame[i], dtn)
    IN  IF ~exists
        THEN SaveTemperaturesDf(Append(frame, NewRow(dtn, temperature)))
        ELSE f

\* load_temperature: the first matching row's temperature, or None
LoadTemperature(f, dt) ==
    LET dtn == Naive(dt)
        hit(row) == Matches(row, dtn)
        match == SelectSeq(LoadTemperaturesDf(f), hit)
    IN  IF match # <<>> THEN Some(match[1].temperature) ELSE NoValue

\* get_lag_temperatures: for i in range(1, num_lags + 1): dt - i hours
RECURSIVE LagLoop(_, _, _, _)
LagLoop(f, dt, i, lags) ==
    IF i > NumLags THEN lags
    ELSE LagLoop(f, dt, i + 1, Append(lags, LoadTemperature(f, MinusHours(dt, i))))

\* a loop over range(num_lags) instead of range(1, num_lags + 1)
GetLagTemperaturesFromZero(f, dt) ==
    [k \in 1..NumLags |-> LoadTemperature(f, MinusHours(dt, k - 1))]

GetLagTemperatures(f, dt) == LagLoop(f, dt, 1, <<>>)

NoCall == [op |-> "none", dt |-> DateTime(0, "naive"), value |-> <<>>]

StoreInit ==
    /\ file = [exists |-> FALSE, rows |-> <<>>]
    /\ log = <<>>
    /\ ret = NoCall
    /\ pc = [p \in Procs |-> "idle"]
    /\ df = [p \in Procs |-> <<>>]
    /\ arg = [p \in Procs |-> [dt |-> DateTime(0, "naive"), temperature |-> 0]]

\* ---- one caller at a time: each call runs to completion
Save(dt, temperature) ==
    /\ Len(log) < MaxSaves
    /\ file' = SaveTemperatureWrite(file, LoadTemperaturesDf(file), dt, temperature)
    /\ log' = Append(log, [dt |-> dt, temperature |-> temperature])
    /\ ret' = [op |-> "save_temperature", dt |-> dt, value |-> <<>>]
    /\ UNCHANGED <<pc, df, arg, notStore>>

Load(dt) ==
    /\ ret' = [op |-> "load_temperature", dt |-> dt, value |-> LoadTemperature(file, dt)]
    /\ UNCHANGED <<file, log, pc, df, arg, notStore>>

GetLags(dt) ==
    /\ ret' = [op |-> "get_lag_temperatures", dt |-> dt,
               value |-> GetLagTemperatures(file, dt)]
    /\ UNCHANGED <<file, log, pc, df, arg, notStore>>

\* ---- concurrent callers: the load and the write of one call are two steps
SaveBegin(p, dt, temperature) ==
    /\ pc[p] = "idle"
    /\ Len(log) < MaxSaves
    /\ df' = [df EXCEPT ![p] = LoadTemperaturesDf(file)]
    /\ arg' = [arg EXCEPT ![p] = [dt |-> dt, temperature |-> temperature]]
    /\ pc' = [pc EXCEPT ![p] = "loaded"]
    /\ log' = Append(log, [dt |-> dt, temperature |-> temperature])
    /\ UNCHANGED <<file, ret, notStore>>

SaveCommit(p) ==
    /\ pc[p] = "loaded"
    /\ file' = SaveTemperatureWrite(file, df[p], arg[p].dt, arg[p].temperature)
    /\ pc' = [pc EXCEPT ![p] = "idle"]
    /\ ret' = [op |-> "save_temperature", dt |-> arg[p].dt, value |-> <<>>]
    /\ UNCHANGED <<log, df, arg, notStore>>

StoreNext ==
    \/ \E dt \in DateTimes, t \in Temperatures : Save(dt, t)
    \/ \E dt \in DateTimes : Load(dt)
    \/ \E dt \in DateTimes : GetLags(dt)

StoreConcNext ==
    \/ \E p \in Procs, dt \in DateTimes, t \in Temperatures : SaveBegin(p, dt, t)
    \/ \E p \in Procs : SaveCommit(p)

\* ------------------------------------------------------ Model Freshness Cache
\* _get_file_mtime: the artifact's modification time, or None when the catalog
\* cannot be opened or the file does not exist
GetFileMtime(art, up) == IF up /\ art.exists THEN Some(art.mtime) ELSE NoValue

\* whether context.catalog.load("trained_model") returns rather than raises
CatalogLoadOk(art, up) == up /\ art.exists /\ art.ok

\* the staleness test with the modification-time comparison left out
NeedsLoadOnlyWhenEmpty(m, ts, cur) == m = NoValue

\* if self._model is None or current_mtime != self._model_timestamp
NeedsLoad(m, ts, cur) == m = NoValue \/ cur # ts

CacheState == [model |-> model, ts |-> modelTimestamp]

CacheInit ==
    /\ artifact = [exists |-> TRUE, mtime |-> 1, ok |-> TRUE]
    /\ catalogUp = TRUE
    /\ model = NoValue
    /\ modelTimestamp = NoValue
    /\ cpc = [t \in Procs |-> "idle"]
    /\ curMtime = [t \in Procs |-> NoValue]
    /\ loadedObj = [t \in Procs |-> NoValue]
    /\ call = [t \in Procs |-> <<>>]
    /\ calls = <<>>
    /\ nloads = 0

\* the call of caller t ends: by return self._model, or by the RuntimeError
Finish(t, attempted, outcome, handle) ==
    /\ calls' = Append(calls,
                  [probed |-> call[t][1].probed, before |-> call[t][1].before,
                   attempted |-> attempted,
                   loadable |-> call[t][1].loadable,
                   outcome |-> outcome, handle |-> handle,
                   after |-> [model |-> model', ts |-> modelTimestamp']])
    /\ call' = [call EXCEPT ![t] = <<>>]
    /\ cpc' = [cpc EXCEPT ![t] = "idle"]
    /\ curMtime' = [curMtime EXCEPT ![t] = NoValue]
    /\ loadedObj' = [loadedObj EXCEPT ![t] = NoValue]

\* current_mtime = self._get_file_mtime("trained_model")
LoadModelProbe(t) ==
    /\ cpc[t] = "idle"
    /\ Len(calls) + Cardinality({u \in Procs : cpc[u] # "idle"}) < MaxCalls
    /\ curMtime' = [curMtime EXCEPT ![t] = GetFileMtime(artifact, catalogUp)]
    /\ call' = [call EXCEPT ![t] =
                  <<[probed |-> GetFileMtime(artifact, catalogUp),
                     before |-> CacheState, attempted |-> FALSE,
                     loadable |-> CatalogLoadOk(artifact, catalogUp)]>>]
    /\ cpc' = [cpc EXCEPT ![t] = "check"]
    /\ UNCHANGED <<artifact, catalogUp, model, modelTimestamp, loadedObj, calls,
                   nloads, notCache>>

\* the if: reload, or go straight to return self._model
LoadModelCheck(t) ==
    /\ cpc[t] = "check"
    /\ cpc' = [cpc EXCEPT ![t] =
                 IF NeedsLoad(model, modelTimestamp, curMtime[t])
                 THEN "load" ELSE "return"]
    /\ UNCHANGED <<artifact, catalogUp, model, modelTimestamp, curMtime,
                   loadedObj, call, calls, nloads, notCache>>

\* a load_model that stores the freshness token before it loads
LoadModelLoadStampFirst(t) ==
    /\ cpc[t] = "load"
    /\ modelTimestamp' = curMtime[t]
    /\ IF CatalogLoadOk(artifact, catalogUp)
       THEN /\ loadedObj' = [loadedObj EXCEPT ![t] =
                               Some([id |-> nloads + 1, mtime |-> artifact.mtime])]
            /\ nloads' = nloads + 1
            /\ call' = [call EXCEPT ![t][1].attempted = TRUE]
            /\ cpc' = [cpc EXCEPT ![t] = "store_model"]
            /\ UNCHANGED <<model, curMtime, calls>>
       ELSE /\ UNCHANGED <<model, nloads>>
            /\ Finish(t, TRUE, "raised", NoValue)
    /\ UNCHANGED <<artifact, catalogUp, notCache>>

\* context.catalog.load("trained_model"): a new object, or an exception that
\* leaves load_model as RuntimeError before anything is assigned
LoadModelLoad(t) ==
    /\ cpc[t] = "load"
    /\ IF CatalogLoadOk(artifact, catalogUp)
       THEN /\ loadedObj' = [loadedObj EXCEPT ![t] =
                               Some([id |-> nloads + 1, mtime |-> artifact.mtime])]
            /\ nloads' = nloads + 1
            /\ call' = [call EXCEPT ![t][1].attempted = TRUE]
            /\ cpc' = [cpc EXCEPT ![t] = "store_model"]
            /\ UNCHANGED <<model, modelTimestamp, curMtime, calls>>
       ELSE /\ UNCHANGED <<model, modelTimestamp, nloads>>
            /\ Finish(t, TRUE, "raised", NoValue)
    /\ UNCHANGED <<artifact, catalogUp, notCache>>

\* self._model = <the loaded object>
LoadModelStoreModel(t) ==
    /\ cpc[t] = "store_model"
    /\ model' = loadedObj[t]
    /\ cpc' = [cpc EXCEPT ![t] = "store_ts"]
    /\ UNCHANGED <<artifact, catalogUp, modelTimestamp, curMtime, loadedObj,
                   call, calls, nloads, notCache>>

\* self._model_timestamp = current_mtime
LoadModelStoreTimestamp(t) ==
    /\ cpc[t] = "store_ts"
    /\ modelTimestamp' = curMtime[t]
    /\ cpc' = [cpc EXCEPT ![t] = "return"]
    /\ UNCHANGED <<artifact, catalogUp, model, curMtime, loadedObj, call, calls,
                   nloads, notCache>>

\* return self._model
LoadModelReturn(t) ==
    /\ cpc[t] = "return"
    /\ UNCHANGED <<artifact, catalogUp, model, modelTimestamp, nloads, notCache>>
    /\ Finish(t, call[t][1].attempted, "returned", model)

\* ---- the world around the cache
\* the training pipeline writes the artifact again (a usable or a corrupt one)
ArtifactRewrite(ok) ==
    /\ artifact.mtime < MaxMtime
    /\ artifact' = [exists |-> TRUE, mtime |-> artifact.mtime + 1, ok |-> ok]
    /\ UNCHANGED <<catalogUp, model, modelTimestamp, cpc, curMtime, loadedObj,
                   call, calls, nloads, notCache>>

\* the artifact is deleted
ArtifactRemove ==
    /\ artifact.exists
    /\ artifact' = [artifact EXCEPT !.exists = FALSE]
    /\ UNCHANGED <<catalogUp, model, modelTimestamp, cpc, curMtime, loadedObj,
                   call, calls, nloads, notCache>>

\* the catalog becomes unavailable, or available again
CatalogFlip ==
    /\ catalogUp' = ~catalogUp
    /\ UNCHANGED <<artifact, model, modelTimestamp, cpc, curMtime, loadedObj,
                   call, calls, nloads, notCache>>

\* no load_model call is in progress
CacheQuiet == \A t \in Procs : cpc[t] = "idle"

\* one caller; the artifact and the catalog change between calls
CacheNext ==
    \/ LoadModelProbe(1)
    \/ LoadModelCheck(1)
    \/ LoadModelLoad(1)
    \/ LoadModelStoreModel(1)
    \/ LoadModelStoreTimestamp(1)
    \/ LoadModelReturn(1)
    \/ CacheQuiet /\ \E ok \in BOOLEAN : ArtifactRewrite(ok)
    \/ CacheQuiet /\ ArtifactRemove
    \/ CacheQuiet /\ CatalogFlip

\* concurrent callers of load_model on the shared predictor; the artifact is
\* rewritten at any moment
CacheConcNext ==
    \/ \E t \in Procs : LoadModelProbe(t)
    \/ \E t \in Procs : LoadModelCheck(t)
    \/ \E t \in Procs : LoadModelLoad(t)
    \/ \E t \in Procs : LoadModelStoreModel(t)
    \/ \E t \in Procs : LoadModelStoreTimestamp(t)
    \/ \E t \in Procs : LoadModelReturn(t)
    \/ \E ok \in BOOLEAN : ArtifactRewrite(ok)

\* ------------------------------------------------------------------ Scheduler
Slots == 1..PoolSlots

Running == {i \in Slots : jpc[i] # "idle"}

\* add_job passes no max_instances: two instances of the job may overlap
MayStartSecondInstance(n) == n < 2

\* add_job passes no max_instances, so the job runs in at most one instance:
\* a fire is submitted only when no instance is running
MayStart(n) == n < 1

\* the state create_app leaves: the job added, the scheduler started and kept
\* in app.scheduler
SchedInit ==
    /\ schedState = "running"
    /\ phase = "serving"
    /\ jpc = [i \in Slots |-> "idle"]
    /\ jfailed = [i \in Slots |-> FALSE]
    /\ rpc = [h \in Procs |-> "idle"]
    /\ fires = 0
    /\ firesIdle = 0
    /\ started = 0
    /\ lastExec = <<>>
    /\ shutdownBy = <<>>

\* the interval trigger comes due and the scheduler processes it (run times
\* that piled up are coalesced into this one fire).  late: the fire is
\* processed more than misfire_grace_time after its run time and is skipped.
Fire(late) ==
    /\ phase = "serving"
    /\ schedState = "running"
    /\ fires < MaxFires
    /\ fires' = fires + 1
    /\ firesIdle' = IF ~late /\ Running = {} THEN firesIdle + 1 ELSE firesIdle
    /\ IF ~late /\ MayStart(Cardinality(Running)) /\ Running # Slots
       THEN /\ \E i \in Slots \ Running :
                 /\ \A j \in Slots \ Running : i <= j
                 /\ jpc' = [jpc EXCEPT ![i] = "config"]
                 /\ jfailed' = [jfailed EXCEPT ![i] = FALSE]
            /\ started' = started + 1
       ELSE UNCHANGED <<jpc, jfailed, started>>
    /\ UNCHANGED <<schedState, phase, rpc, lastExec, shutdownBy, notSched>>

\* update_forecast: bootstrap_project, KedroSession, the location parameters.
\* how: "ok", "raise" (an exception), "nolocation" (logged, return)
JobLoadConfig(i, how) ==
    /\ phase = "serving"
    /\ jpc[i] = "config"
    /\ jpc' = [jpc EXCEPT ![i] =
                 CASE how = "ok" -> "fetch"
                   [] how = "raise" -> "except"
                   [] OTHER -> "exit"]
    /\ UNCHANGED <<schedState, phase, jfailed, rpc, fires, firesIdle, started,
                   lastExec, shutdownBy, notSched>>

\* weather_data = get_current_weather(lat, lon)
JobFetch(i, ok) ==
    /\ phase = "serving"
    /\ jpc[i] = "fetch"
    /\ jpc' = [jpc EXCEPT ![i] = IF ok THEN "save" ELSE "except"]
    /\ UNCHANGED <<schedState, phase, jfailed, rpc, fires, firesIdle, started,
                   lastExec, shutdownBy, notSched>>

\* predictor = WeatherPredictor(...); predictor.save_temperature(...)
JobSave(i, ok) ==
    /\ phase = "serving"
    /\ jpc[i] = "save"
    /\ jpc' = [jpc EXCEPT ![i] = IF ok THEN "exit" ELSE "except"]
    /\ UNCHANGED <<schedState, phase, jfailed, rpc, fires, firesIdle, started,
                   lastExec, shutdownBy, notSched>>

\* except Exception as e: logger.error(...)
JobExcept(i) ==
    /\ phase = "serving"
    /\ jpc[i] = "except"
    /\ jfailed' = [jfailed EXCEPT ![i] = TRUE]
    /\ jpc' = [jpc EXCEPT ![i] = "exit"]
    /\ UNCHANGED <<schedState, phase, rpc, fires, firesIdle, started, lastExec,
                   shutdownBy, notSched>>

\* shutdown_scheduler, the teardown_appcontext function: runs whenever an
\* application context is popped
SchedulerAfterTeardown(state) == IF state = "running" THEN "stopped" ELSE state

ShutdownCallsAfterTeardown(state, who) ==
    IF state = "running" THEN Append(shutdownBy, who) ELSE shutdownBy

\* the with app.app_context() block of update_forecast is left
JobExitContext(i) ==
    /\ phase = "serving"
    /\ jpc[i] = "exit"
    /\ schedState' = SchedulerAfterTeardown(schedState)
    /\ shutdownBy' = ShutdownCallsAfterTeardown(schedState, "job")
    /\ lastExec' = <<[failed |-> jfailed[i],
                      schedulerAfter |-> SchedulerAfterTeardown(schedState)]>>
    /\ jpc' = [jpc EXCEPT ![i] = "idle"]
    /\ UNCHANGED <<phase, jfailed, rpc, fires, firesIdle, started, notSched>>

\* a request arrives: Flask pushes an application context for it
RequestBegin(h) ==
    /\ phase = "serving"
    /\ rpc[h] = "idle"
    /\ rpc' = [rpc EXCEPT ![h] = "handling"]
    /\ UNCHANGED <<schedState, phase, jpc, jfailed, fires, firesIdle, started,
                   lastExec, shutdownBy, notSched>>

\* the response is sent: the request's application context is popped
RequestEnd(h) ==
    /\ phase = "serving"
    /\ rpc[h] = "handling"
    /\ schedState' = SchedulerAfterTeardown(schedState)
    /\ shutdownBy' = ShutdownCallsAfterTeardown(schedState, "request")
    /\ rpc' = [rpc EXCEPT ![h] = "idle"]
    /\ UNCHANGED <<phase, jpc, jfailed, fires, firesIdle, started, lastExec,
                   notSched>>

\* app.run returns and the process ends: nothing in create_app or main is
\* registered to run at that point
ProcessExit ==
    /\ phase = "serving"
    /\ phase' = "exited"
    /\ UNCHANGED <<schedState, jpc, jfailed, rpc, fires, firesIdle, started,
                   lastExec, shutdownBy, notSched>>

SchedNext ==
    \/ \E late \in BOOLEAN : Fire(late)
    \/ \E i \in Slots, how \in {"ok", "raise", "nolocation"} : JobLoadConfig(i, how)
    \/ \E i \in Slots, ok \in BOOLEAN : JobFetch(i, ok)
    \/ \E i \in Slots, ok \in BOOLEAN : JobSave(i, ok)
    \/ \E i \in Slots : JobExcept(i)
    \/ \E i \in Slots : JobExitContext(i)
    \/ \E h \in Procs : RequestBegin(h)
    \/ \E h \in Procs : RequestEnd(h)
    \/ ProcessExit

\* ------------------------------------------------------------ Forecast Engine
\* for i in range(24)
ForecastSteps == 24

\* the start times and temperatures predict_24h is called with
ForecastStarts == {DateTime(At(2, 1, 5), "naive"), DateTime(At(1, 23, 45), "UTC")}

\* the observation the weather source reports for an hour
ObservedAt(dt) == 48 + (HourOf(dt) % 3)

\* datetime.isoformat(): date, time of day and UTC offset, as text
IsoFormat(dt) ==
    [date |-> DateOf(dt), hour |-> HourOf(dt), minute |-> dt.wall % 60,
     offset |-> dt.tz]

\* start_time + timedelta(hours = i + 1): the loop counts from the next hour
FutureTimeFromNextHour(start, i) == PlusHours(start, i + 1)

\* future_time = start_time + timedelta(hours=i)
FutureTime(start, i) == PlusHours(start, i)

\* a column of the feature schema: the lag columns ft_temp_lag_{i}h carry
\* their i, the others carry 0
Col(name) == [name |-> name, lag |-> 0]

LagCol(i) == [name |-> "ft_temp_lag", lag |-> i]

\* params['data_science']['feature_columns'] as the training pipeline lays the
\* columns out (ft_date stands for the pair ft_month, ft_day)
SchemaTrained ==
    <<Col("ft_date"), Col("ft_hour"), Col("ft_days_since_2000"), Col("ft_temp")>>
        \o [i \in 1..NumLags |-> LagCol(i)]

\* another configured order: the lags first and from the oldest, fewer calendar
\* columns, and a lag column one hour beyond num_lags
SchemaLagsFirst ==
    [i \in 1..NumLags |-> LagCol(NumLags + 1 - i)]
        \o <<Col("ft_temp"), Col("ft_hour"), LagCol(NumLags + 1)>>

FeatureSchemas == {SchemaTrained, SchemaLagsFirst}

\* _build_features: features_dict
FeaturesDict(dt, temp, lags) ==
    [ft_date |-> DateOf(dt), ft_hour |-> HourOf(dt), ft_days_since |-> dt.wall,
     ft_temp |-> temp, ft_temp_lag |-> lags]

\* features_dict.get(col, 0) with an absent lag filled with 0 as well
FeaturesGetZeroFilled(fd, col) ==
    CASE col.name = "ft_date" -> Some(fd.ft_date)
      [] col.name = "ft_hour" -> Some(fd.ft_hour)
      [] col.name = "ft_days_since_2000" -> Some(fd.ft_days_since)
      [] col.name = "ft_temp" -> Some(fd.ft_temp)
      [] OTHER -> IF col.lag \in 1..Len(fd.ft_temp_lag)
                       /\ fd.ft_temp_lag[col.lag] # NoValue
                  THEN fd.ft_temp_lag[col.lag]
                  ELSE Some(0)

\* features_dict.get(col, np.nan): None and NaN are both the missing value
FeaturesGet(fd, col) ==
    CASE col.name = "ft_date" -> Some(fd.ft_date)
      [] col.name = "ft_hour" -> Some(fd.ft_hour)
      [] col.name = "ft_days_since_2000" -> Some(fd.ft_days_since)
      [] col.name = "ft_temp" -> Some(fd.ft_temp)
      [] OTHER -> IF col.lag \in 1..Len(fd.ft_temp_lag)
                  THEN fd.ft_temp_lag[col.lag]
                  ELSE NoValue

\* _build_features: (np.array([features_list]), features_dict)
BuildFeatures(feature_cols, dt, temp, lags) ==
    LET features_dict == FeaturesDict(dt, temp, lags)
    IN  [features |-> [c \in 1..Len(feature_cols) |->
                          FeaturesGet(features_dict, feature_cols[c])],
         features_dict |-> features_dict]

RECURSIVE LagSum(_)
LagSum(features) ==
    IF features = <<>> THEN 0
    ELSE (IF Head(features) = NoValue THEN 1 ELSE Head(features)[1])
             + LagSum(Tail(features))

\* model.predict(features)[0]: the regressor is opaque; any fixed function of
\* the handle and the features stands for it
ModelPredict(handle, features) == 45 + ((handle.mtime + LagSum(features)) % 8)

\* the window is left as it is
ShiftLagsNot(lags, cur) == lags

\* [current_temp_val] + lag_temps: the oldest lag is kept
ShiftLagsKeepOldest(lags, cur) == <<Some(cur)>> \o lags

\* lag_temps = [current_temp_val] + lag_temps[:-1]
ShiftLags(lags, cur) == <<Some(cur)>> \o SubSeq(lags, 1, Len(lags) - 1)

\* load_model as one step: the cache it leaves and whether it raised
LoadModelCall ==
    LET cur == GetFileMtime(artifact, catalogUp)
    IN  IF NeedsLoad(model, modelTimestamp, cur)
        THEN IF CatalogLoadOk(artifact, catalogUp)
             THEN [raised |-> FALSE, ts |-> cur, nloads |-> nloads + 1,
                   model |-> Some([id |-> nloads + 1, mtime |-> artifact.mtime])]
             ELSE [raised |-> TRUE, ts |-> modelTimestamp, nloads |-> nloads,
                   model |-> model]
        ELSE [raised |-> FALSE, ts |-> modelTimestamp, nloads |-> nloads,
              model |-> model]

ForecastInit ==
    /\ fpc = "idle"
    /\ fargs = <<>>
    /\ fi = 0
    /\ lagTemps = <<>>
    /\ currentTempVal = 0
    /\ predictions = <<>>
    /\ inputs = <<>>

\* model = self.load_model(); lag_temps = self.get_lag_temperatures(start_time);
\* predictions = []; current_temp_val = current_temp
Predict24hBegin(start, temp, feature_cols) ==
    /\ fpc # "loop"
    /\ fargs' = <<[start_time |-> start, current_temp |-> temp,
                   feature_columns |-> feature_cols]>>
    /\ model' = LoadModelCall.model
    /\ modelTimestamp' = LoadModelCall.ts
    /\ nloads' = LoadModelCall.nloads
    /\ fi' = 0
    /\ predictions' = <<>>
    /\ inputs' = <<>>
    /\ IF LoadModelCall.raised
       THEN /\ fpc' = "raised"
            /\ lagTemps' = <<>>
            /\ currentTempVal' = 0
       ELSE /\ fpc' = "loop"
            /\ lagTemps' = GetLagTemperatures(file, start)
            /\ currentTempVal' = temp
    /\ UNCHANGED <<artifact, catalogUp, cpc, curMtime, loadedObj, call, calls,
                   storeVars, schedVars, auxVars>>

\* the loop body with each prediction also written to the store as the
\* observation of its hour
Predict24hStepRecording ==
    /\ fpc = "loop"
    /\ fi < ForecastSteps
    /\ LET future_time == FutureTime(fargs[1].start_time, fi)
           built == BuildFeatures(fargs[1].feature_columns, future_time,
                                  currentTempVal, lagTemps)
           predicted_temp == ModelPredict(model[1], built.features)
       IN  /\ predictions' = Append(predictions,
                                [time |-> IsoFormat(future_time),
                                 hour |-> HourOf(future_time),
                                 predicted_temperature |-> predicted_temp])
           /\ inputs' = Append(inputs,
                           [dt |-> future_time, temp |-> currentTempVal,
                            lags |-> lagTemps, features |-> built.features,
                            features_dict |-> built.features_dict])
           /\ lagTemps' = ShiftLags(lagTemps, currentTempVal)
           /\ currentTempVal' = predicted_temp
           /\ file' = SaveTemperatureWrite(file, LoadTemperaturesDf(file),
                                           future_time, predicted_temp)
    /\ fi' = fi + 1
    /\ UNCHANGED <<fpc, fargs, log, ret, pc, df, arg, cacheVars, schedVars, auxVars>>

\* one pass of the loop body
Predict24hStep ==
    /\ fpc = "loop"
    /\ fi < ForecastSteps
    /\ LET future_time == FutureTime(fargs[1].start_time, fi)
           built == BuildFeatures(fargs[1].feature_columns, future_time,
                                  currentTempVal, lagTemps)
           predicted_temp == ModelPredict(model[1], built.features)
       IN  /\ predictions' = Append(predictions,
                                [time |-> IsoFormat(future_time),
                                 hour |-> HourOf(future_time),
                                 predicted_temperature |-> predicted_temp])
           /\ inputs' = Append(inputs,
                           [dt |-> future_time, temp |-> currentTempVal,
                            lags |-> lagTemps, features |-> built.features,
                            features_dict |-> built.features_dict])
           /\ lagTemps' = ShiftLags(lagTemps, currentTempVal)
           /\ currentTempVal' = predicted_temp
    /\ fi' = fi + 1
    /\ UNCHANGED <<fpc, fargs, storeVars, cacheVars, schedVars, auxVars>>

\* return predictions
Predict24hReturn ==
    /\ fpc = "loop"
    /\ fi = ForecastSteps
    /\ fpc' = "returned"
    /\ UNCHANGED <<fargs, fi, lagTemps, currentTempVal, predictions, inputs,
                   storeVars, cacheVars, schedVars, auxVars>>

\* the hours observed before the forecasts start
ForecastObserved == {dt \in DateTimes : dt.wall < At(2, 1, 0)}

\* the store is filled and the artifact may vanish between forecasts
ForecastNext ==
    \/ fpc = "idle" /\ \E dt \in ForecastObserved : Save(dt, ObservedAt(dt))
    \/ fpc # "loop" /\ ArtifactRemove
    \/ \E start \in ForecastStarts, temp \in Temperatures, cols \in FeatureSchemas :
           Predict24hBegin(start, temp, cols)
    \/ Predict24hStep
    \/ Predict24hReturn

\* -------------------------------------------------------------- ingestion
\* the callers that fetch the current weather and store it
IngestKinds == {"forecast_update_job", "/api/forecast"}

\* what the weather service answers: a first period with its startTime,
\* temperature and temperatureUnit, or no usable answer at all
WeatherResponses ==
    [status : {"ok"}, unit : {"F", "C", "K"}, temperature : {10, 50},
     start : {DateTime(At(1, 23, 45), "UTC"), DateTime(At(2, 0, 20), "UTC")}]
    \cup [status : {"unreachable", "malformed"}, unit : {"F"}, temperature : {50},
          start : {DateTime(At(1, 23, 45), "UTC")}]

\* any unit other than "C" is taken for Fahrenheit
GetCurrentWeatherAnyUnit(resp) ==
    IF resp.status # "ok"
    THEN [raised |-> TRUE, start_time |-> resp.start, temperature |-> 0]
    ELSE [raised |-> FALSE, start_time |-> resp.start,
          temperature |-> IF resp.unit = "C"
                          THEN ((resp.temperature * 9) \div 5) + 32
                          ELSE resp.temperature]

\* get_current_weather: raise_for_status / missing keys raise; "F" is returned
\* as it is, "C" is converted, any other unit raises ValueError
GetCurrentWeather(resp) ==
    IF resp.status # "ok"
    THEN [raised |-> TRUE, start_time |-> resp.start, temperature |-> 0]
    ELSE IF resp.unit = "F"
    THEN [raised |-> FALSE, start_time |-> resp.start, temperature |-> resp.temperature]
    ELSE IF resp.unit = "C"
    THEN [raised |-> FALSE, start_time |-> resp.start,
          temperature |-> ((resp.temperature * 9) \div 5) + 32]
    ELSE [raised |-> TRUE, start_time |-> resp.start, temperature |-> 0]

IngestInit ==
    /\ ipc = "idle"
    /\ ikind = "forecast_update_job"
    /\ iresp = NoValue
    /\ iweather = NoValue
    /\ fileBefore = [exists |-> FALSE, rows |-> <<>>]

\* the job or the request starts: the location is read from the parameters and,
\* when it is configured, weather_data = get_current_weather(lat, lon); an
\* exception ends the job in its except clause and the request with a 500
IngestFetch(kind, located, resp) ==
    /\ ipc # "fetched"
    /\ Len(log) < MaxSaves
    /\ ikind' = kind
    /\ fileBefore' = file
    /\ IF ~located
       THEN /\ iresp' = NoValue
            /\ iweather' = NoValue
            /\ ipc' = "aborted"
       ELSE /\ iresp' = Some(resp)
            /\ IF GetCurrentWeather(resp).raised
               THEN /\ iweather' = NoValue
                    /\ ipc' = "aborted"
               ELSE /\ iweather' = Some(GetCurrentWeather(resp))
                    /\ ipc' = "fetched"
    /\ UNCHANGED <<storeVars, cacheVars, schedVars, forecastVars, crashVars,
                   explainVars>>

\* predictor.save_temperature(start_time, current_temp), and the rest of the
\* job or request, which only reads the store
IngestSave ==
    /\ ipc = "fetched"
    /\ file' = SaveTemperatureWrite(file, LoadTemperaturesDf(file),
                                    iweather[1].start_time, iweather[1].temperature)
    /\ log' = Append(log, [dt |-> iweather[1].start_time,
                           temperature |-> iweather[1].temperature])
    /\ ret' = [op |-> "save_temperature", dt |-> iweather[1].start_time,
               value |-> <<>>]
    /\ ipc' = "done"
    /\ UNCHANGED <<pc, df, arg, ikind, iresp, iweather, fileBefore, cacheVars,
                   schedVars, forecastVars, crashVars, explainVars>>

IngestNext ==
    \/ \E kind \in IngestKinds, located \in BOOLEAN, resp \in WeatherResponses :
           IngestFetch(kind, located, resp)
    \/ IngestSave

\* --------------------------------------- process termination during a save
CrashInit ==
    /\ torn = FALSE
    /\ acked = {}
    /\ restarted = FALSE

\* save_temperature up to the write: the frame is loaded and, when the hour is
\* already stored, the call returns; otherwise df.to_parquet opens the file for
\* writing, which truncates it. (While the file is torn read_parquet raises, so
\* a call made then changes nothing.)
CrashSaveOpen(dt, temperature) ==
    /\ pc[1] = "idle"
    /\ ~torn
    /\ Len(log) < MaxSaves
    /\ log' = Append(log, [dt |-> dt, temperature |-> temperature])
    /\ LET frame == LoadTemperaturesDf(file)
       IN  IF \E i \in 1..Len(frame) : Matches(frame[i], Naive(dt))
           THEN /\ ret' = [op |-> "save_temperature", dt |-> dt, value |-> <<>>]
                /\ UNCHANGED <<file, pc, df, arg, torn>>
           ELSE /\ df' = [df EXCEPT ![1] = frame]
                /\ arg' = [arg EXCEPT ![1] = [dt |-> dt, temperature |-> temperature]]
                /\ pc' = [pc EXCEPT ![1] = "writing"]
                /\ file' = [exists |-> TRUE, rows |-> <<>>]
                /\ torn' = TRUE
                /\ UNCHANGED ret
    /\ UNCHANGED <<acked, restarted, cacheVars, schedVars, forecastVars,
                   ingestVars, explainVars>>

\* the writer finishes: row groups and footer are written, the file is closed,
\* save_temperature returns
CrashSaveClose ==
    /\ pc[1] = "writing"
    /\ file' = SaveTemperatureWrite(file, df[1], arg[1].dt, arg[1].temperature)
    /\ torn' = FALSE
    /\ pc' = [pc EXCEPT ![1] = "idle"]
    /\ acked' = acked \cup {arg[1]}
    /\ ret' = [op |-> "save_temperature", dt |-> arg[1].dt, value |-> <<>>]
    /\ UNCHANGED <<log, df, arg, restarted, cacheVars, schedVars, forecastVars,
                   ingestVars, explainVars>>

\* the process is terminated and started again: what was in memory is gone,
\* the file is as the last step left it
Terminate ==
    /\ pc' = [p \in Procs |-> "idle"]
    /\ df' = [p \in Procs |-> <<>>]
    /\ restarted' = TRUE
    /\ UNCHANGED <<file, log, ret, arg, torn, acked, cacheVars, schedVars,
                   forecastVars, ingestVars, explainVars>>

CrashNext ==
    \/ \E dt \in DateTimes, t \in Temperatures : CrashSaveOpen(dt, t)
    \/ CrashSaveClose
    \/ Terminate

\* ------------------------------------------------------------- explanation
ShapLen == 3        \* features the explainer attributes to
ShapMax == 2        \* largest magnitude of one contribution

\* explainer.shap_values(features)[0]: one signed contribution per feature
ShapVectors == [1..ShapLen -> (0 - ShapMax)..ShapMax]

\* np.abs
Abs(x) == IF x < 0 THEN 0 - x ELSE x

\* ndarray.sum()
RECURSIVE SumSeq(_)
SumSeq(s) == IF s = <<>> THEN 0 ELSE Head(s) + SumSeq(Tail(s))

\* a quotient of two floats, kept exact as numerator over denominator
Ratio(n, d) == [num |-> n, den |-> d]

\* np.abs left out: the signed contributions are divided by their sum
PercentagesSigned(shap_values) ==
    LET total == SumSeq(shap_values)
    IN  IF total > 0
        THEN [i \in 1..Len(shap_values) |-> Ratio(shap_values[i] * 100, total)]
        ELSE [i \in 1..Len(shap_values) |-> Ratio(0, 1)]

\* abs_shap = np.abs(shap_values[0]); total = abs_shap.sum();
\* (abs_shap / total) * 100 if total > 0 else np.zeros_like(abs_shap)
Percentages(shap_values) ==
    LET abs_shap == [i \in 1..Len(shap_values) |-> Abs(shap_values[i])]
        total == SumSeq(abs_shap)
    IN  IF total > 0
        THEN [i \in 1..Len(shap_values) |-> Ratio(abs_shap[i] * 100, total)]
        ELSE [i \in 1..Len(shap_values) |-> Ratio(0, 1)]

\* x > y for two ratios with positive denominators
Greater(x, y) == x.num * y.den > y.num * x.den

\* contributions.sort(key=percentage, reverse=True): a stable sort, so an entry
\* goes behind the entries that are not smaller than it
RECURSIVE InsertDescending(_, _)
InsertDescending(entry, sorted) ==
    IF sorted = <<>> THEN <<entry>>
    ELSE IF Greater(entry.percentage, Head(sorted).percentage)
    THEN <<entry>> \o sorted
    ELSE <<Head(sorted)>> \o InsertDescending(entry, Tail(sorted))

RECURSIVE SortDescending(_, _)
SortDescending(todo, sorted) ==
    IF todo = <<>> THEN sorted
    ELSE SortDescending(Tail(todo), InsertDescending(Head(todo), sorted))

\* get_shap_contributions from the contribution vector on: the 'contributions'
\* list (the feature is named by its index in feature_cols)
GetShapContributions(shap_values) ==
    LET percentages == Percentages(shap_values)
    IN  SortDescending([i \in 1..Len(shap_values) |->
                           [feature |-> i, percentage |-> percentages[i],
                            shap_value |-> shap_values[i]]], <<>>)

ExplainInit ==
    /\ shapValues = <<>>
    /\ explained = <<>>

\* one call in a behaviour: the result depends on the vector alone
Explain(shap_values) ==
    /\ explained = <<>>
    /\ shapValues' = shap_values
    /\ explained' = GetShapContributions(shap_values)
    /\ UNCHANGED <<storeVars, cacheVars, schedVars, forecastVars, ingestVars,
                   crashVars>>

ExplainNext == \E shap_values \in ShapVectors : Explain(shap_values)

Init ==
    /\ StoreInit /\ CacheInit /\ SchedInit /\ ForecastInit
    /\ IngestInit /\ CrashInit /\ ExplainInit

SpecStore == Init /\ [][StoreNext]_vars

SpecStoreConc == Init /\ [][StoreConcNext]_vars

SpecCache == Init /\ [][CacheNext]_vars

SpecCacheConc == Init /\ [][CacheConcNext]_vars

SpecSched == Init /\ [][SchedNext]_vars

SpecForecast == Init /\ [][ForecastNext]_vars

SpecIngest == Init /\ [][IngestNext]_vars

SpecCrash == Init /\ [][CrashNext]_vars

SpecExplain == Init /\ [][ExplainNext]_vars

\* ------------------------------------------------- Temperature Store: claims
\* two datetimes name the same (year, month, day, hour)
SameHour(a, b) ==
    /\ DateOf(Naive(a)) = DateOf(Naive(b))
    /\ HourOf(Naive(a)) = HourOf(Naive(b))

\* what the history says the store holds for dt's hour: the temperature of
\* the earliest save_temperature call in that hour, or nothing
FirstWrite(dt) ==
    LET made == {i \in 1..Len(log) : SameHour(log[i].dt, dt)}
    IN  IF made = {} THEN NoValue
        ELSE Some(log[CHOOSE i \in made : \A j \in made : i <= j].temperature)

RowsFor(dt) ==
    {r \in 1..Len(LoadTemperaturesDf(file)) :
        Matches(LoadTemperaturesDf(file)[r], Naive(dt))}

\* C1: first write wins per hour key.  After any sequence of save_temperature
\* calls, load_temperature(t) is the temperature of the first call made in t's
\* hour (a later call in that hour with another temperature changes nothing),
\* a load_temperature call returns exactly that, and the store holds at most
\* one row per hour key.
C1_FirstWriteWins ==
    /\ \A i \in 1..Len(log) :
          /\ LoadTemperature(file, log[i].dt) = FirstWrite(log[i].dt)
          /\ Cardinality(RowsFor(log[i].dt)) = 1
    /\ \A dt \in DateTimes : Cardinality(RowsFor(dt)) <= 1
    /\ ret.op = "load_temperature" => ret.value = FirstWrite(ret.dt)

\* a second save in an hour already stored, with another temperature and
\* another timestamp, has been made and load_temperature has answered with the
\* first temperature
C1_Witness ==
    /\ ret.op = "load_temperature"
    /\ \E i, j \in 1..Len(log) :
          /\ i < j
          /\ log[i].dt # log[j].dt
          /\ SameHour(log[i].dt, log[j].dt)
          /\ log[i].temperature # log[j].temperature
          /\ ret.dt = log[i].dt
          /\ ret.value = Some(log[i].temperature)
          /\ \A k \in 1..(i - 1) : ~SameHour(log[k].dt, log[i].dt)

\* C2: the store is append-only under concurrency.  In every step of every
\* interleaving of save_temperature calls, an observation that
\* load_temperature returns before the step is returned unchanged after it.
C2_StoredObservationsKept ==
    [][\A dt \in DateTimes :
          LoadTemperature(file, dt) # NoValue
              => LoadTemperature(file', dt) = LoadTemperature(file, dt)]_vars

\* C3: get_lag_temperatures(t) returns exactly num_lags entries, entry i being
\* the observation stored for the hour of t - i hours, or None when that hour
\* has none; on a store with no records every entry is None.
C3_LagEntries ==
    ret.op = "get_lag_temperatures" =>
        /\ Len(ret.value) = NumLags
        /\ \A i \in 1..NumLags :
              ret.value[i] = FirstWrite(MinusHours(ret.dt, i))
        /\ (log = <<>> => \A i \in 1..NumLags : ret.value[i] = NoValue)

\* --------------------------------------------- Model Freshness Cache: claims
\* the consecutive pairs (i, i + 1) of completed load_model calls
Pairs == {i \in 1..Len(calls) : i + 1 <= Len(calls)}

\* what C4 says of the second of two consecutive calls
SecondCallAsCached(prev, last) ==
    /\ ~last.attempted
    /\ last.outcome = "returned"
    /\ last.handle # NoValue
    /\ last.handle = last.before.model

SecondCallReloads(prev, last) ==
    /\ last.attempted
    /\ last.outcome = "returned" =>
          /\ last.handle # NoValue
          /\ last.handle # last.before.model
          /\ Some(last.handle[1].mtime) = last.probed

\* C4 as stated: for any two consecutive load_model calls, an unchanged
\* modification time means the second call loads nothing and returns the
\* identical cached handle, and a changed one means it loads again and
\* returns the newly loaded handle.
C4_AnyTwoCalls ==
    \A i \in Pairs :
        LET prev == calls[i]
            last == calls[i + 1]
        IN  /\ last.probed = prev.probed => SecondCallAsCached(prev, last)
            /\ (last.probed # prev.probed /\ last.probed # NoValue)
                   => SecondCallReloads(prev, last)

\* C4 (amended): the same, for two consecutive calls of which the first
\* returned a handle.
C4_AfterReturnedCall ==
    \A i \in Pairs :
        LET prev == calls[i]
            last == calls[i + 1]
        IN  prev.outcome = "returned" =>
              /\ last.probed = prev.probed =>
                    /\ SecondCallAsCached(prev, last)
                    /\ last.handle = prev.handle
              /\ (last.probed # prev.probed /\ last.probed # NoValue)
                     => SecondCallReloads(prev, last)

\* three calls: a load, a call at the same modification time answered from
\* the cache, and after a rewrite a call that loads and returns a new handle
C4_Witness ==
    /\ Len(calls) = 3
    /\ calls[1].outcome = "returned" /\ calls[1].attempted
    /\ calls[2].probed = calls[1].probed /\ calls[2].probed # NoValue
    /\ ~calls[2].attempted /\ calls[2].handle = calls[1].handle
    /\ calls[3].probed # calls[2].probed /\ calls[3].probed # NoValue
    /\ calls[3].attempted /\ calls[3].outcome = "returned"
    /\ calls[3].handle # calls[2].handle

\* C5: a call whose probe failed uses the cached handle when there is one (no
\* reload is attempted, nothing is raised) and raises when there is none.
C5_ProbeFailureUsesCache ==
    \A i \in 1..Len(calls) :
        calls[i].probed = NoValue =>
            IF calls[i].before.model # NoValue
            THEN /\ ~calls[i].attempted
                 /\ calls[i].outcome = "returned"
                 /\ calls[i].handle = calls[i].before.model
            ELSE calls[i].outcome = "raised"

\* a failed load leaves self._model and self._model_timestamp as they were
FailedLoadKeepsCache ==
    \A i \in 1..Len(calls) :
        calls[i].outcome = "raised" => calls[i].after = calls[i].before

C7_OneInstance ==
    /\ Cardinality(Running) <= 1
    /\ started = firesIdle

\* two more fires have come during one running execution, and it is still the
\* only execution started
C7_Witness ==
    /\ Cardinality(Running) = 1
    /\ fires = 3
    /\ firesIdle = 1
    /\ started = 1

\* C8: an exception in a step of an execution is caught inside
\* update_forecast and does not stop the scheduler: after a failed execution
\* the scheduler is still running.
C8_SchedulerSurvivesFailure ==
    \A k \in 1..Len(lastExec) :
        lastExec[k].failed => lastExec[k].schedulerAfter = "running"

\* C9: the scheduler is shut down only during process teardown: while the
\* process serves, the scheduler stays running, and neither the end of a
\* request's application context nor that of a job execution's shuts it down;
\* shutdown is called at most once.
C9_RunningUntilTeardown ==
    /\ phase = "serving" => schedState = "running"
    /\ \A k \in 1..Len(shutdownBy) : shutdownBy[k] \notin {"job", "request"}
    /\ Len(shutdownBy) <= 1

\* ----------------------------------------------------- Forecast Engine: claims
\* the minutes since the epoch midnight an isoformat text names
WallOf(text) == (text.date * 24 + text.hour) * 60 + text.minute

\* C10: predict_24h returns exactly 24 steps in order, step i (0..23) having
\* time = start_time + i hours and hour = the hour of day of that time.
C10_TwentyFourHourlySteps ==
    fpc = "returned" =>
        /\ Len(predictions) = 24
        /\ \A i \in 0..23 :
              /\ WallOf(predictions[i + 1].time) = fargs[1].start_time.wall + 60 * i
              /\ predictions[i + 1].time.offset = fargs[1].start_time.tz
              /\ predictions[i + 1].hour =
                    ((fargs[1].start_time.wall + 60 * i) \div 60) % 24

\* a forecast has returned whose steps run past midnight
C10_Witness ==
    /\ fpc = "returned"
    /\ Len(predictions) = 24
    /\ \E i \in 1..23 :
          /\ predictions[i].hour = 23
          /\ predictions[i + 1].hour = 0
          /\ predictions[i + 1].time.date = predictions[i].time.date + 1

\* a call whose 1-hour and 3-hour lags are stored and whose 2-hour lag is not
C3_Witness ==
    /\ ret.op = "get_lag_temperatures"
    /\ Len(ret.value) = NumLags
    /\ ret.value[1] # NoValue
    /\ ret.value[2] = NoValue
    /\ ret.value[3] # NoValue

\* ------------------------------------------------- Forecast Engine: rollout
\* the features_dict step s (1-based) was computed from
StepDict(s) == inputs[s].features_dict

\* C11: the inputs of the rollout.  Step 0 is computed from current = the
\* current_temp of the call and lag_k = the stored observation for
\* start_time - k hours (absent when none is stored); every later step i from
\* current = the prediction of step i-1 as it was returned, lag_1 = the
\* current-temperature input of step i-1 and lag_k = lag_(k-1) of step i-1,
\* the oldest lag being dropped.
C11_RolloutInputs ==
    \A s \in 1..Len(inputs) :
        /\ Len(StepDict(s).ft_temp_lag) = NumLags
        /\ IF s = 1
           THEN /\ StepDict(s).ft_temp = fargs[1].current_temp
                /\ \A k \in 1..NumLags :
                      StepDict(s).ft_temp_lag[k]
                          = FirstWrite(MinusHours(fargs[1].start_time, k))
           ELSE /\ StepDict(s).ft_temp = predictions[s - 1].predicted_temperature
                /\ StepDict(s).ft_temp_lag[1] = Some(StepDict(s - 1).ft_temp)
                /\ \A k \in 2..NumLags :
                      StepDict(s).ft_temp_lag[k] = StepDict(s - 1).ft_temp_lag[k - 1]

\* three stored lags 48, 50, 49 and a current temperature of 51: step 0 is
\* computed from (51; 48, 50, 49) and step 1 from (prediction 0; 51, 48, 50)
C11_Witness ==
    /\ Len(inputs) >= 2
    /\ StepDict(1).ft_temp = 51
    /\ SubSeq(StepDict(1).ft_temp_lag, 1, 3) = <<Some(48), Some(50), Some(49)>>
    /\ StepDict(2).ft_temp = predictions[1].predicted_temperature
    /\ SubSeq(StepDict(2).ft_temp_lag, 1, 3) = <<Some(51), Some(48), Some(50)>>

\* every row of the file is an observation a save_temperature call brought
StoredRowsAreObservations ==
    \A r \in 1..Len(file.rows) :
        \E i \in 1..Len(log) :
            /\ Matches(file.rows[r], Naive(log[i].dt))
            /\ file.rows[r].temperature = log[i].temperature
            /\ file.rows[r].timestamp = Naive(log[i].dt).wall

\* C12: predict_24h never changes the Temperature Store.  No step of a call,
\* whether it goes on to return or to raise, changes the file, and the file
\* never holds a row that is not a saved observation, so no predicted
\* temperature is ever returned by load_temperature.
C12_ForecastLeavesStore ==
    /\ []StoredRowsAreObservations
    /\ [][(fpc' # fpc \/ fi' # fi \/ fargs' # fargs) => file' = file]_vars

\* a forecast has returned over a store that holds observations
C12_Witness ==
    /\ fpc = "returned"
    /\ Len(predictions) = ForecastSteps
    /\ file.exists
    /\ Len(file.rows) >= 2

\* C16 as stated: for every step i in 1..23 the window is the window of step
\* i-1 shifted by one, its 1-hour lag being the prediction of step i-1, the
\* oldest lag dropped and the size unchanged.
C16_LagOneIsPreviousPrediction ==
    \A s \in 2..Len(inputs) :
        /\ Len(StepDict(s).ft_temp_lag) = Len(StepDict(s - 1).ft_temp_lag)
        /\ StepDict(s).ft_temp_lag[1] = Some(predictions[s - 1].predicted_temperature)
        /\ \A k \in 2..Len(StepDict(s).ft_temp_lag) :
              StepDict(s).ft_temp_lag[k] = StepDict(s - 1).ft_temp_lag[k - 1]

\* C16 as the code has it: for every step i in 1..23 the window is the window
\* of step i-1 shifted by one, its 1-hour lag being the temperature step i-1
\* took as current (the current_temp of the call for i = 1, the prediction of
\* step i-2 for i >= 2), the oldest lag dropped and the size unchanged.
C16_LagOneIsPreviousCurrent ==
    \A s \in 2..Len(inputs) :
        /\ Len(StepDict(s).ft_temp_lag) = Len(StepDict(s - 1).ft_temp_lag)
        /\ Len(StepDict(s).ft_temp_lag) = NumLags
        /\ StepDict(s).ft_temp_lag[1]
              = Some(IF s = 2 THEN fargs[1].current_temp
                     ELSE predictions[s - 2].predicted_temperature)
        /\ \A k \in 2..Len(StepDict(s).ft_temp_lag) :
              StepDict(s).ft_temp_lag[k] = StepDict(s - 1).ft_temp_lag[k - 1]

\* a rollout three steps in, whose first prediction differs from the current
\* temperature of the call and whose second differs from its first
C16_Witness ==
    /\ Len(inputs) >= 3
    /\ predictions[1].predicted_temperature # fargs[1].current_temp
    /\ predictions[2].predicted_temperature # predictions[1].predicted_temperature
    /\ StepDict(2).ft_temp_lag[1] = Some(fargs[1].current_temp)
    /\ StepDict(3).ft_temp_lag[1] = Some(predictions[1].predicted_temperature)

\* where the schema puts the k-hour lag feature
PositionsOf(cols, k) ==
    {c \in 1..Len(cols) : cols[c].name = "ft_temp_lag" /\ cols[c].lag = k}

\* C18: missing lags propagate as missing.  _build_features puts lag_temps[k-1]
\* at the position of the k-hour lag feature in the configured column order,
\* an absent lag giving the missing value there and never 0; and in
\* predict_24h a lag absent at position k of a step is absent at position k+1
\* of the next step, for k+1 <= num_lags.
C18_MissingLagsStayMissing ==
    \A s \in 1..Len(inputs) :
        LET cols == fargs[1].feature_columns
        IN  /\ \A k \in 1..Len(inputs[s].lags) : \A c \in PositionsOf(cols, k) :
                  inputs[s].features[c] = inputs[s].lags[k]
            /\ s < Len(inputs) =>
                  \A k \in 1..(NumLags - 1) :
                      inputs[s].lags[k] = NoValue =>
                          \A c \in PositionsOf(cols, k + 1) :
                              inputs[s + 1].features[c] = NoValue

\* a rollout over a store with a gap: the 2-hour lag is absent at step 0 and
\* present around it, and the 3-hour lag feature of step 1 is missing
C18_Witness ==
    /\ Len(inputs) >= 2
    /\ inputs[1].lags[1] # NoValue
    /\ inputs[1].lags[2] = NoValue
    /\ fargs[1].feature_columns = SchemaLagsFirst
    /\ \E c \in PositionsOf(SchemaLagsFirst, 2) : inputs[1].features[c] = NoValue
    /\ \E c \in PositionsOf(SchemaLagsFirst, 3) : inputs[2].features[c] = NoValue
    /\ \E c \in PositionsOf(SchemaLagsFirst, 1) : inputs[2].features[c] # NoValue

\* ------------------------------------------------------ ingestion: claims
\* the service gave no usable answer, or gave a temperature in a unit that is
\* neither Fahrenheit nor Celsius
Unusable(resp) == resp.status # "ok" \/ resp.unit \notin {"F", "C"}

\* C13: when the current-weather fetch fails or reports an unrecognized unit,
\* the scheduler job and the /api/forecast request both abort without writing:
\* the store after the failed job or request is the store before it.
C13_FailedFetchWritesNothing ==
    (iresp # NoValue /\ Unusable(iresp[1])) =>
        /\ ipc = "aborted"
        /\ file = fileBefore

\* a request over a store that holds an observation was answered in kelvin
\* and has aborted; so has a job whose fetch failed
C13_Witness ==
    /\ ipc = "aborted"
    /\ iresp # NoValue
    /\ \/ ikind = "/api/forecast" /\ iresp[1].status = "ok" /\ iresp[1].unit = "K"
       \/ ikind = "forecast_update_job" /\ iresp[1].status = "unreachable"
    /\ file.exists
    /\ Len(file.rows) >= 1

\* ------------------------------------------- process termination: claims
\* C14: crash durability.  If the process is terminated at any point, the
\* rewrite inside save_temperature included, then after restart the file is
\* neither partially written nor emptied and load_temperature still returns
\* every observation whose save_temperature call had returned.
C14_ReturnedSavesSurviveRestart ==
    (restarted /\ pc[1] = "idle") =>
        /\ ~torn
        /\ \A o \in acked : LoadTemperature(file, o.dt) = Some(o.temperature)

\* ------------------------------------------------------ explanation: claims
\* the sum of a list of ratios, as one ratio
RECURSIVE RatioSum(_)
RatioSum(s) ==
    IF s = <<>> THEN Ratio(0, 1)
    ELSE LET rest == RatioSum(Tail(s))
         IN  Ratio(Head(s).num * rest.den + rest.num * Head(s).den,
                   Head(s).den * rest.den)

\* the total absolute contribution of the vector that was explained
TotalAbs == SumSeq([i \in 1..Len(shapValues) |->
                       IF shapValues[i] < 0 THEN 0 - shapValues[i] ELSE shapValues[i]])

PercentagesOf(entries) == [i \in 1..Len(entries) |-> entries[i].percentage]

\* C15: the percentages get_shap_contributions returns are all non-negative
\* and each is |contribution_i| / sum_j |contribution_j| * 100, so they sum to
\* 100 when the total absolute contribution is nonzero; when it is exactly
\* zero every percentage is zero and nothing is divided by zero.
C15_Percentages ==
    explained # <<>> =>
        /\ Len(explained) = Len(shapValues)
        /\ \A i \in 1..Len(explained) :
              /\ explained[i].shap_value = shapValues[explained[i].feature]
              /\ explained[i].percentage.den > 0
              /\ explained[i].percentage.num >= 0
              /\ TotalAbs # 0 =>
                    explained[i].percentage.num * TotalAbs
                        = (IF explained[i].shap_value < 0
                           THEN 0 - explained[i].shap_value
                           ELSE explained[i].shap_value) * 100
                              * explained[i].percentage.den
              /\ TotalAbs = 0 => explained[i].percentage.num = 0
        /\ TotalAbs # 0 =>
              RatioSum(PercentagesOf(explained)).num
                  = 100 * RatioSum(PercentagesOf(explained)).den

\* a vector with contributions of both signs has been explained, and one of
\* its negative contributions got a share of more than a quarter
C15_Witness ==
    /\ explained # <<>>
    /\ \E i \in 1..Len(shapValues) : shapValues[i] > 0
    /\ \E i \in 1..Len(explained) :
          /\ explained[i].shap_value < 0
          /\ explained[i].percentage.num * 4 > 100 * explained[i].percentage.den

\* ---------------------------------- Model Freshness Cache under concurrency
\* some caller stands between self._model = ... and self._model_timestamp = ...
ReplacementInProgress == \E t \in Procs : cpc[t] = "store_ts"

\* C17: handle and freshness token stay consistent under concurrency.  In
\* every reachable state of any interleaving of concurrent load_model calls
\* with artifact rewrites, a cached handle has as its token the modification
\* time of the artifact version it was loaded from (a replacement's two
\* assignments being taken as one), and no call is returned a handle older
\* than the artifact version whose modification time that call probed.
C17_HandleAndTokenConsistent ==
    /\ (model # NoValue /\ ~ReplacementInProgress) =>
           modelTimestamp = Some(model[1].mtime)
    /\ \A i \in 1..Len(calls) :
           (calls[i].outcome = "returned" /\ calls[i].handle # NoValue
               /\ calls[i].probed # NoValue) =>
               calls[i].handle[1].mtime >= calls[i].probed[1]

====
